---------------------------- MODULE Spec2Model ----------------------------
(***************************************************************************)
(* Model of the memoized, iterative outlier detection engine               *)
(* (memoized_outlier_detector.py).                                         *)
(*                                                                         *)
(* A matrix is a function [0..rows-1 -> [0..cols-1 -> cell]], indexed from *)
(* zero as numpy indexes it.  A cell is a small natural number or NaN.     *)
(*                                                                         *)
(* Arithmetic is exact.  The statistics of is_outlier are rationals with   *)
(* denominators 2 (median), 4 (percentiles) and 135 (the division by      *)
(* 1.35), so every comparison is carried out on integers after scaling by  *)
(* Scale = 4 * 135.  The program computes in binary floating point; its    *)
(* rounding can change a comparison only where the exact terms are equal,  *)
(* and for the values drawn here the value meets median +/- cutoff exactly *)
(* only when the cutoff is 0, which floating point computes without error. *)
(***************************************************************************)
EXTENDS Integers, Sequences, FiniteSets, TLC

\* ------------------------------------------------------------------ bounds
MaxRows == 3
MaxVal == 2
MaxIter == 2
MaxCalls == 2
MaxWindow == 4
MaxGenRows == 4
MaxPoints == 6

\* --------------------------------------------------------------- constants
\* float('nan'): every defined quantity of the model is >= 0.
NaN == -1
\* num_of_iterations=None
None == -1
\* q75 - q25 is divided by 1.35 (135 hundredths)
IqrDivisor100 == 135

Scale == 4 * IqrDivisor100
\* max_diff_from_span=5, the default of qc_FUC_timeseries
max_diff_from_span == 5
\* max_st_dev=2.25, the default of qc_FUC_timeseries, in hundredths
max_st_dev_100 == 225

\* the values is_outlier is tried on
Cell == {NaN} \cup (0..MaxVal)
\* the values of the matrices the detector, the algorithm and the generator
\* are run on, and their numbers of columns
MatrixCell == {NaN, 0, 1}
ColumnCounts == {1, 2}
\* frame arguments given to byFrameGeneratorFactory, in halves: 0, 0.5, 1
FrameArguments == {0, 1, 2}
\* differences of consecutive timestamps of a FUC time series, the co2
\* measurements, and the arguments qc_FUC_timeseries is called with
Gaps == {1, 2}
Measurements == {0, 5}
Breakpoints == {1}
SpanCo2 == {5, 10}
CurveMinNumPoints == {1, 3}
\* stdev_limit values given to InterquartileVarianceAlgorithm (default 5)
StdevLimits == {1, 5}
\* min_num_points values given to InterquartileVarianceAlgorithm (default 20)
MinNumPoints == {1, 20}

VARIABLES
    caller,                \* the array object the caller holds
    orig,                  \* contents of the caller's array when outliers() was called
    ndim,                  \* len(data.shape) of the caller's array
    data,                  \* the local `data` of OutlierDetector.outliers
    num_missing_in_frame,  \* memoization array
    outliers,              \* the accumulating float matrix `outliers`
    outlier_truth_matrix,  \* the mask of the latest sweep
    num_of_iterations,     \* None or an int
    sweeps,                \* calls of the algorithm made so far
    history,               \* the masks of all sweeps so far, in order
    result,                \* the returned boolean matrix
    pc,
    frame,                 \* byFrameGeneratorFactory._frame
    stdev_limit,           \* InterquartileVarianceAlgorithm._stdev_limit
    min_num_points,        \* InterquartileVarianceAlgorithm._min_num_points
    idx,                   \* position of the generator
    yielded,               \* the frames the generator has yielded, in order
    col,                   \* is_outlier argument
    data_point,            \* is_outlier argument
    verdict,               \* is_outlier return value
    FUC_time_series,       \* qc_FUC_timeseries argument: rows [timestamp, co2]
    min_time_breakpoint,   \* qc_FUC_timeseries argument
    span_co2,              \* qc_FUC_timeseries argument
    fuc_min_num_points,    \* qc_FUC_timeseries argument min_num_points
    ignoreFirst_arg,       \* qc_FUC_timeseries argument ignoreFirst
    ignoreFirst,           \* the generator's own ignoreFirst
    fuc_i,                 \* the generator's i, the lagging frame
    fuc_j,                 \* the generator's j, the leading frame
    curve,                 \* the pair the generator has yielded last
    curves,                \* all pairs the generator has yielded, in order
    tested,                \* FUC_curve.shape[0] of every call of FUC_tests
    output                 \* the list `output` of qc_FUC_timeseries

fuc_vars == <<FUC_time_series, min_time_breakpoint, span_co2,
              fuc_min_num_points, ignoreFirst_arg, ignoreFirst, fuc_i, fuc_j,
              curve, curves, tested, output>>

vars == <<caller, orig, ndim, data, num_missing_in_frame, outliers,
          outlier_truth_matrix, num_of_iterations, sweeps, history, result,
          pc, frame, stdev_limit, min_num_points, idx, yielded, col,
          data_point, verdict, fuc_vars>>

\* ----------------------------------------------------------------- helpers
Min(a, b) == IF a < b THEN a ELSE b
Max(a, b) == IF a > b THEN a ELSE b
Abs(a) == IF a < 0 THEN -a ELSE a

isnan(x) == x = NaN

\* math.ceil of a value given in halves
ceil(halves) == (halves + 1) \div 2

\* data.shape[0]: a matrix or a column is a function on 0..n-1
shape0(m) == Cardinality(DOMAIN m)
shape1(m) == IF shape0(m) = 0 THEN 0 ELSE Cardinality(DOMAIN m[0])

Matrices(rows, cols) == [0..(rows - 1) -> [0..(cols - 1) -> MatrixCell]]

\* np.zeros(data.shape)
zeros(m) == [r \in DOMAIN m |-> [c \in DOMAIN m[r] |-> 0]]

\* np.sum(outlier_truth_matrix)
CellsOf(m) == {<<r, c>> : r \in DOMAIN m, c \in 0..(shape1(m) - 1)}
TrueCells(mask) == {rc \in CellsOf(mask) : mask[rc[1]][rc[2]]}
npsum(mask) == Cardinality(TrueCells(mask))

\* ---------------------------------------------------------------- slicing
\* Python's slice index normalisation: a negative index counts from the end,
\* and an index outside the array is clamped to it.
SliceIndex(i, len) == IF i < 0 THEN Max(i + len, 0) ELSE Min(i, len)

\* data[start:stop, ]
Slice(m, start, stop) ==
    LET lo == SliceIndex(start, shape0(m))
        hi == SliceIndex(stop, shape0(m))
    IN  [k \in 0..(hi - lo - 1) |-> m[lo + k]]

\* the centred block starting one row late
generator_late(m, f, i) ==
    IF f < i /\ i < shape0(m) - f
    THEN Slice(m, i - f, i + f + 1)
    ELSE IF i < f
         THEN Slice(m, 0, 2 * f + 1)
         ELSE Slice(m, -2 * f - 1, shape0(m))

\* byFrameGeneratorFactory.generator: the frame yielded for row idx
generator(m, f, i) ==
    IF f <= i /\ i < shape0(m) - f
    THEN Slice(m, i - f, i + f + 1)
    ELSE IF i < f
         THEN Slice(m, 0, 2 * f + 1)
         ELSE Slice(m, -2 * f - 1, shape0(m))

\* frame[:, i], as a sequence
column(fr, i) == [k \in 1..shape0(fr) |-> fr[k - 1][i]]

\* ------------------------------------------------------------- statistics
notnan(x) == ~isnan(x)

\* sum(~np.isnan(col))
count_valid(c) == Len(SelectSeq(c, notnan))

\* the non-NaN entries of a column in ascending order
sorted_valid(c) == SortSeq(SelectSeq(c, notnan), <)

\* linear interpolation in the sorted values s at the virtual index
\* q/100 * (n-1), for q in {25, 75}; the result is times 4
interpolate(s, q) ==
    IF Len(s) = 0 THEN NaN
    ELSE 4 * s[(q * (Len(s) - 1)) \div 100 + 1]
         + (((q * (Len(s) - 1)) % 100) \div 25)
           * (s[Min((q * (Len(s) - 1)) \div 100 + 2, Len(s))]
              - s[(q * (Len(s) - 1)) \div 100 + 1])

\* 4 * np.nanpercentile(col, q); NaN for a column without values
nanpercentile(c, q) == interpolate(sorted_valid(c), q)

\* the two middle values of the sorted values s added up
middle(s) ==
    IF Len(s) = 0 THEN NaN ELSE s[(Len(s) - 1) \div 2 + 1] + s[Len(s) \div 2 + 1]

\* 2 * np.nanmedian(col); NaN for a column without values
nanmedian(c) == middle(sorted_valid(c))

\* q25, q75 of is_outlier (times 4)
quartile(c, q, min_points) ==
    IF count_valid(c) >= min_points THEN nanpercentile(c, q) ELSE NaN

\* iqr_stdev of is_outlier, times Scale: |q75 - q25| / 1.35
iqr_stdev(q75, q25) ==
    IF ~isnan(q75) /\ ~isnan(q25) THEN Abs(q75 - q25) * 100 ELSE NaN

\* cut_off of is_outlier, times Scale; NaN * limit is NaN
cut_off(stdev, std_dev_limit) ==
    IF isnan(stdev) THEN NaN ELSE stdev * std_dev_limit

\* the bounds taken as inclusive
within_inclusive(median, point, cut) ==
    /\ ~isnan(median) /\ ~isnan(cut) /\ ~isnan(point)
    /\ median * (Scale \div 2) - cut <= point * Scale
    /\ point * Scale <= median * (Scale \div 2) + cut

\* (np.nanmedian(col) - cut_off) < data_point < (np.nanmedian(col) + cut_off),
\* every term times Scale; a comparison with NaN is false.
within(median, point, cut) ==
    /\ ~isnan(median) /\ ~isnan(cut) /\ ~isnan(point)
    /\ median * (Scale \div 2) - cut < point * Scale
    /\ point * Scale < median * (Scale \div 2) + cut

\* an undefined cutoff or value counted as an outlier
verdict_unless_inside(cut, point, median) ==
    IF within(median, point, cut) THEN FALSE ELSE TRUE

\* the missing-value test left out
verdict_flags_missing(cut, point, median) ==
    IF isnan(cut) \/ within(median, point, cut) THEN FALSE ELSE TRUE

\* the return expression of is_outlier
verdict_of(cut, point, median) ==
    IF isnan(cut) \/ isnan(point) \/ within(median, point, cut)
    THEN FALSE ELSE TRUE

is_outlier(c, point, std_dev_limit, min_points) ==
    verdict_of(cut_off(iqr_stdev(quartile(c, 75, min_points),
                                 quartile(c, 25, min_points)),
                       std_dev_limit),
               point, nanmedian(c))

\* ------------------------------------------- InterquartileVarianceAlgorithm
\* min(2 * span + 1, self._min_num_points)
min_points_used(span, configured) == Min(2 * span + 1, configured)

\* new_num_missing_data: the count of non-NaN values of each column of a frame
new_num_missing_data(fr) ==
    [i \in 0..(shape1(fr) - 1) |-> count_valid(column(fr, i))]

\* recomputed only where the count has grown
need_recalc_grown(new, cached) == [i \in DOMAIN new |-> new[i] > cached[i]]

\* need_recalc, from the new counts and the row of the memoization array
need_recalc(new, cached) == [i \in DOMAIN new |-> new[i] # cached[i]]

\* row_outliers, for a frame and the row of the data it was yielded for
row_outliers(fr, row, need, limit, min_points) ==
    [i \in DOMAIN row |->
        IF need[i] THEN is_outlier(column(fr, i), row[i], limit, min_points)
        ELSE FALSE]

\* the counts never written back
row_cache_kept(cached, new) == cached

\* if not np.array_equal(...): num_missing_data_in_frame[count] = new_num_missing_data
row_cache(cached, new) == new

\* one turn of the loop over the frames
row_turn(fr, row, cached, new, limit, min_points) ==
    [mask |-> row_outliers(fr, row, need_recalc(new, cached), limit, min_points),
     cache |-> row_cache(cached, new)]

frame_turn(fr, row, cached, limit, min_points) ==
    row_turn(fr, row, cached, new_num_missing_data(fr), limit, min_points)

\* (outliers.astype(bool), num_missing_data_in_frame) from the turns
returned(turns) ==
    [mask |-> [count \in DOMAIN turns |-> turns[count].mask],
     cache |-> [count \in DOMAIN turns |-> turns[count].cache]]

\* InterquartileVarianceAlgorithm.outliers
algorithm_outliers(m, span, cache, limit, configured) ==
    returned([count \in DOMAIN m |->
                 frame_turn(generator(m, span, count), m[count], cache[count],
                            limit, min_points_used(span, configured))])

\* ----------------------------------------------------------- OutlierDetector
\* a local that has not been assigned yet
Unset == << >>

\* the sum replaced by the latest mask
accumulate_overwrite(acc, mask) ==
    [r \in DOMAIN acc |->
        [c \in DOMAIN acc[r] |-> IF mask[r][c] THEN 1 ELSE 0]]

\* outliers += outlier_truth_matrix (a float matrix plus a boolean matrix)
accumulate(acc, mask) ==
    [r \in DOMAIN acc |->
        [c \in DOMAIN acc[r] |-> acc[r][c] + (IF mask[r][c] THEN 1 ELSE 0)]]

\* data[outlier_truth_matrix] = float('nan')
mask_assign(m, mask) ==
    [r \in DOMAIN m |->
        [c \in DOMAIN m[r] |-> IF mask[r][c] THEN NaN ELSE m[r][c]]]

\* outliers.astype(bool)
astype_bool(acc) ==
    [r \in DOMAIN acc |-> [c \in DOMAIN acc[r] |-> acc[r][c] # 0]]

\* one iteration too many
for_has_next_inclusive == sweeps <= num_of_iterations

\* range(num_of_iterations) has another element
for_has_next == sweeps < num_of_iterations

\* qc_FUC_timeseries is not in use
FucIdle ==
    /\ FUC_time_series = Unset
    /\ min_time_breakpoint = 0
    /\ span_co2 = 0
    /\ fuc_min_num_points = 0
    /\ ignoreFirst_arg = FALSE
    /\ ignoreFirst = FALSE
    /\ fuc_i = 0
    /\ fuc_j = 0
    /\ curve = Unset
    /\ curves = << >>
    /\ tested = << >>
    /\ output = << >>

GeneratorIdle == idx = 0 /\ yielded = << >>
TestIdle == col = << >> /\ data_point = NaN /\ verdict = FALSE

\* The detector, its generator factory and its algorithm are constructed and
\* the caller holds an array; outliers() has not been entered.
Init ==
    /\ \E rows \in 1..MaxRows, cols \in ColumnCounts :
          /\ caller \in Matrices(rows, cols)
          /\ ndim \in (IF cols = 1 THEN {1, 2} ELSE {2})
    /\ orig = caller
    /\ \E halves \in FrameArguments : frame = ceil(halves)
    /\ stdev_limit \in StdevLimits
    /\ min_num_points \in MinNumPoints
    /\ num_of_iterations \in {None} \cup (0..MaxIter)
    /\ data = Unset
    /\ num_missing_in_frame = Unset
    /\ outliers = Unset
    /\ outlier_truth_matrix = Unset
    /\ result = Unset
    /\ sweeps = 0
    /\ history = << >>
    /\ pc = "start"
    /\ GeneratorIdle /\ TestIdle /\ FucIdle

\* Entry of OutlierDetector.outliers.  A 1-D array is replaced by a reshaped
\* copy (np.array copies); a 2-D array is used as it is, so `data` and the
\* caller's array are one object.
Call ==
    /\ pc = "start"
    /\ data' = caller
    /\ outliers' = zeros(caller)
    /\ num_missing_in_frame' = zeros(caller)
    /\ pc' = "loop"
    /\ UNCHANGED <<caller, orig, ndim, outlier_truth_matrix, num_of_iterations,
                   sweeps, history, result, frame, stdev_limit, min_num_points,
                   idx, yielded, col, data_point, verdict>>
    /\ UNCHANGED fuc_vars

\* One iteration of either loop: the algorithm runs on copy(data), its mask is
\* accumulated, and the loop either breaks or writes NaN into `data`.
LoopBody ==
    \E r \in {algorithm_outliers(data, frame, num_missing_in_frame,
                                 stdev_limit, min_num_points)} :
        /\ outlier_truth_matrix' = r.mask
        /\ num_missing_in_frame' = r.cache
        /\ outliers' = accumulate(outliers, r.mask)
        /\ history' = Append(history, r.mask)
        /\ sweeps' = sweeps + 1
        /\ IF npsum(r.mask) = 0
           THEN /\ pc' = "return"
                /\ UNCHANGED <<data, caller>>
           ELSE /\ data' = mask_assign(data, r.mask)
                /\ caller' = (IF ndim = 2 THEN data' ELSE caller)
                /\ pc' = "loop"
        /\ UNCHANGED <<orig, ndim, num_of_iterations, result, frame,
                       stdev_limit, min_num_points, idx, yielded, col,
                       data_point, verdict>>
        /\ UNCHANGED fuc_vars

\* while True: ...
WhileSweep ==
    /\ pc = "loop"
    /\ num_of_iterations = None
    /\ LoopBody

\* for _ in range(num_of_iterations): ...
ForSweep ==
    /\ pc = "loop"
    /\ num_of_iterations # None
    /\ for_has_next
    /\ LoopBody

\* range(num_of_iterations) is exhausted
ForExhausted ==
    /\ pc = "loop"
    /\ num_of_iterations # None
    /\ ~for_has_next
    /\ pc' = "return"
    /\ UNCHANGED <<caller, orig, ndim, data, num_missing_in_frame, outliers,
                   outlier_truth_matrix, num_of_iterations, sweeps, history,
                   result, frame, stdev_limit, min_num_points, idx, yielded,
                   col, data_point, verdict>>
    /\ UNCHANGED fuc_vars

\* return outliers.astype(bool)
Return ==
    /\ pc = "return"
    /\ result' = astype_bool(outliers)
    /\ pc' = "done"
    /\ UNCHANGED <<caller, orig, ndim, data, num_missing_in_frame, outliers,
                   outlier_truth_matrix, num_of_iterations, sweeps, history,
                   frame, stdev_limit, min_num_points, idx, yielded, col,
                   data_point, verdict>>
    /\ UNCHANGED fuc_vars

Next == Call \/ WhileSweep \/ ForSweep \/ ForExhausted \/ Return

Spec == Init /\ [][Next]_vars

\* The run without an iteration cap.
InitWhile == Init /\ num_of_iterations = None

NextWhile == Call \/ WhileSweep \/ Return

SpecWhile == InitWhile /\ [][NextWhile]_vars

\* ------------------------------------------------ the generator on its own
DetectIdle ==
    /\ ndim = 2
    /\ num_of_iterations = None
    /\ outliers = Unset
    /\ result = Unset

\* generator(data) has been called: `data` is the generator's private copy.
InitGen ==
    /\ \E rows \in 1..MaxGenRows, cols \in ColumnCounts : caller \in Matrices(rows, cols)
    /\ orig = caller
    /\ data = caller
    /\ \E halves \in FrameArguments : frame = ceil(halves)
    /\ stdev_limit = 5
    /\ min_num_points = 20
    /\ num_missing_in_frame = Unset
    /\ outlier_truth_matrix = Unset
    /\ sweeps = 0
    /\ idx = 0
    /\ yielded = << >>
    /\ pc = "generating"
    /\ history = << >>
    /\ DetectIdle /\ TestIdle /\ FucIdle

\* one turn of `for idx in range(data.shape[0])`: yield output
GeneratorYield ==
    /\ pc = "generating"
    /\ idx < shape0(data)
    /\ yielded' = Append(yielded, generator(data, frame, idx))
    /\ idx' = idx + 1
    /\ UNCHANGED <<caller, orig, ndim, data, num_missing_in_frame, outliers,
                   outlier_truth_matrix, num_of_iterations, sweeps, history,
                   result, pc, frame, stdev_limit, min_num_points, col,
                   data_point, verdict>>
    /\ UNCHANGED fuc_vars

\* the range is exhausted: the generator ends
GeneratorEnd ==
    /\ pc = "generating"
    /\ idx >= shape0(data)
    /\ pc' = "generated"
    /\ UNCHANGED <<caller, orig, ndim, data, num_missing_in_frame, outliers,
                   outlier_truth_matrix, num_of_iterations, sweeps, history,
                   result, frame, stdev_limit, min_num_points, idx, yielded,
                   col, data_point, verdict>>
    /\ UNCHANGED fuc_vars

NextGen == GeneratorYield \/ GeneratorEnd

SpecGen == InitGen /\ [][NextGen]_vars

\* ------------------------------------------------ the algorithm on its own
\* InterquartileVarianceAlgorithm.outliers is called again and again on the
\* same matrix, each call with the memoization array the previous one
\* returned; the first call gets zeros.
InitAlg ==
    /\ \E rows \in 1..MaxRows, cols \in ColumnCounts : caller \in Matrices(rows, cols)
    /\ orig = caller
    /\ data = caller
    /\ \E halves \in FrameArguments : frame = ceil(halves)
    /\ stdev_limit \in StdevLimits
    /\ min_num_points \in MinNumPoints
    /\ num_missing_in_frame = zeros(caller)
    /\ outlier_truth_matrix = Unset
    /\ sweeps = 0
    /\ pc = "algorithm"
    /\ history = << >>
    /\ DetectIdle /\ GeneratorIdle /\ TestIdle /\ FucIdle

AlgorithmCall ==
    /\ pc = "algorithm"
    /\ sweeps < MaxCalls
    /\ \E r \in {algorithm_outliers(data, frame, num_missing_in_frame,
                                    stdev_limit, min_num_points)} :
          /\ outlier_truth_matrix' = r.mask
          /\ num_missing_in_frame' = r.cache
          /\ history' = Append(history, r.mask)
    /\ sweeps' = sweeps + 1
    /\ UNCHANGED <<caller, orig, ndim, data, outliers, num_of_iterations,
                   result, pc, frame, stdev_limit, min_num_points, idx,
                   yielded, col, data_point, verdict>>
    /\ UNCHANGED fuc_vars

NextAlg == AlgorithmCall

SpecAlg == InitAlg /\ [][NextAlg]_vars

\* ------------------------------------------------- is_outlier on its own
Columns == UNION {[1..n -> Cell] : n \in 1..MaxWindow}

\* is_outlier is about to be called with arguments col, data_point,
\* stdev_limit, min_num_points.
InitTest ==
    /\ col \in Columns
    /\ data_point \in Cell
    /\ stdev_limit \in StdevLimits
    /\ min_num_points \in 0..(MaxWindow + 1)
    /\ verdict = FALSE
    /\ pc = "test"
    /\ caller = Unset /\ orig = Unset /\ data = Unset
    /\ frame = 0
    /\ num_missing_in_frame = Unset
    /\ outlier_truth_matrix = Unset
    /\ sweeps = 0
    /\ history = << >>
    /\ DetectIdle /\ GeneratorIdle /\ FucIdle

IsOutlierCall ==
    /\ pc = "test"
    /\ verdict' = is_outlier(col, data_point, stdev_limit, min_num_points)
    /\ pc' = "tested"
    /\ UNCHANGED <<caller, orig, ndim, data, num_missing_in_frame, outliers,
                   outlier_truth_matrix, num_of_iterations, sweeps, history,
                   result, frame, stdev_limit, min_num_points, idx, yielded,
                   col, data_point>>
    /\ UNCHANGED fuc_vars

NextTest == IsOutlierCall

SpecTest == InitTest /\ [][NextTest]_vars

\* ======================================================================
\* FUC_flagging: qc_FUC_timeseries, FUC_curve_generator, FUC_tests
\* ======================================================================
detector_vars == <<caller, orig, ndim, data, num_missing_in_frame, outliers,
                   outlier_truth_matrix, num_of_iterations, sweeps, history,
                   result, frame, stdev_limit, min_num_points, idx, yielded,
                   col, data_point, verdict>>

\* the timestamp of row k of a series whose consecutive timestamps differ by g
RECURSIVE elapsed(_, _)
elapsed(g, k) == IF k = 0 THEN 0 ELSE elapsed(g, k - 1) + g[k]

\* chronologically ordered series of n rows [timestamp, co2]
TimeSeries(n) ==
    {[k \in 0..(n - 1) |-> [c \in 0..1 |-> IF c = 0 THEN elapsed(g, k) ELSE v[k]]] :
        g \in [1..(n - 1) -> Gaps], v \in [0..(n - 1) -> Measurements]}

\* FUC_time_series[:, c]
series_column(m, c) == [k \in DOMAIN m |-> m[k][c]]

\* a difference equal to the breakpoint taken as a break
breakpoint_reached_inclusive(FUC_data, lead, breakpoint) ==
    Abs(FUC_data[lead] - FUC_data[lead - 1]) >= breakpoint

\* abs(FUC_data[j] - FUC_data[j - 1]) > min_time_breakpoint
breakpoint_reached(FUC_data, lead, breakpoint) ==
    Abs(FUC_data[lead] - FUC_data[lead - 1]) > breakpoint

\* np.sum of the first n entries of a vector, and of their squares
RECURSIVE total(_, _)
total(f, n) == IF n = 0 THEN 0 ELSE f[n - 1] + total(f, n - 1)

RECURSIVE total_squares(_, _)
total_squares(f, n) == IF n = 0 THEN 0 ELSE f[n - 1] * f[n - 1] + total_squares(f, n - 1)

\* Test 1: FUC_curve.shape[0] < min_num_points
too_few_points(points, min_points) == points < min_points

\* Test 2: abs(span_co2 - np.mean(last)) > max_diff_from_span, times n;
\* the mean of no measurements is NaN and the comparison false
mean_off_span(n, sum, span, max_diff) ==
    n > 0 /\ Abs(n * span - sum) > n * max_diff

\* Test 3: np.std(last) > max_st_dev, squared and times (100 n)^2;
\* the deviation of no measurements is NaN and the comparison false
deviation_above(n, sum, squares, max_dev_100) ==
    n > 0 /\ 10000 * (n * squares - sum * sum) > max_dev_100 * max_dev_100 * n * n

\* the tests on last_FUC_measurements
last_measurements_bad(last, span, max_diff, max_dev_100) ==
    \/ mean_off_span(shape0(last), total(last, shape0(last)), span, max_diff)
    \/ deviation_above(shape0(last), total(last, shape0(last)),
                       total_squares(last, shape0(last)), max_dev_100)

\* FUC_tests: True if the curve is bad
FUC_tests(FUC_curve, span, min_points, max_diff, max_dev_100) ==
    IF too_few_points(shape0(FUC_curve), min_points) THEN TRUE
    ELSE last_measurements_bad(Slice(FUC_curve, -8, -3), span, max_diff, max_dev_100)

\* curve_end after `if curve_end - curve_start == 0: curve_end += 1`
failsafe(curve_start, curve_end) ==
    IF curve_end - curve_start = 0 THEN curve_end + 1 ELSE curve_end

\* FUC_time_series[curve_start:curve_end, 1]
curve_measurements(m, curve_start, curve_end) ==
    series_column(Slice(m, curve_start, curve_end), 1)

\* qc_FUC_timeseries is about to be called.
InitFUC ==
    /\ \E n \in 1..MaxPoints : FUC_time_series \in TimeSeries(n)
    /\ min_time_breakpoint \in Breakpoints
    /\ span_co2 \in SpanCo2
    /\ fuc_min_num_points \in CurveMinNumPoints
    /\ ignoreFirst_arg \in BOOLEAN
    /\ ignoreFirst = FALSE
    /\ fuc_i = 0
    /\ fuc_j = 0
    /\ curve = Unset
    /\ curves = << >>
    /\ tested = << >>
    /\ output = << >>
    /\ pc = "qc"
    /\ caller = Unset /\ orig = Unset /\ data = Unset
    /\ frame = 0
    /\ stdev_limit = 5
    /\ min_num_points = 20
    /\ num_missing_in_frame = Unset
    /\ outlier_truth_matrix = Unset
    /\ sweeps = 0
    /\ history = << >>
    /\ DetectIdle /\ GeneratorIdle /\ TestIdle

\* generator = FUC_curve_generator(...); output = []; the first next() on the
\* generator runs i = 0, j = 1
QcCall ==
    /\ pc = "qc"
    /\ ignoreFirst' = ignoreFirst_arg
    /\ fuc_i' = 0
    /\ fuc_j' = 1
    /\ output' = << >>
    /\ pc' = "while"
    /\ UNCHANGED <<FUC_time_series, min_time_breakpoint, span_co2,
                   fuc_min_num_points, ignoreFirst_arg, curve, curves, tested>>
    /\ UNCHANGED detector_vars

\* while j < FUC_data.shape[0], no break between j-1 and j: j += 1
WhileNoBreak ==
    /\ pc = "while"
    /\ fuc_j < shape0(FUC_time_series)
    /\ ~breakpoint_reached(series_column(FUC_time_series, 0), fuc_j, min_time_breakpoint)
    /\ fuc_j' = fuc_j + 1
    /\ UNCHANGED <<FUC_time_series, min_time_breakpoint, span_co2,
                   fuc_min_num_points, ignoreFirst_arg, ignoreFirst, fuc_i,
                   curve, curves, tested, output, pc>>
    /\ UNCHANGED detector_vars

\* a break and not ignoreFirst: yield i, j - 1
WhileYield ==
    /\ pc = "while"
    /\ fuc_j < shape0(FUC_time_series)
    /\ breakpoint_reached(series_column(FUC_time_series, 0), fuc_j, min_time_breakpoint)
    /\ ~ignoreFirst
    /\ curve' = <<fuc_i, fuc_j - 1>>
    /\ curves' = Append(curves, curve')
    /\ pc' = "body"
    /\ UNCHANGED <<FUC_time_series, min_time_breakpoint, span_co2,
                   fuc_min_num_points, ignoreFirst_arg, ignoreFirst, fuc_i,
                   fuc_j, tested, output>>
    /\ UNCHANGED detector_vars

\* a break and ignoreFirst: ignoreFirst = False; i = j; j += 1
WhileIgnoreFirst ==
    /\ pc = "while"
    /\ fuc_j < shape0(FUC_time_series)
    /\ breakpoint_reached(series_column(FUC_time_series, 0), fuc_j, min_time_breakpoint)
    /\ ignoreFirst
    /\ ignoreFirst' = FALSE
    /\ fuc_i' = fuc_j
    /\ fuc_j' = fuc_j + 1
    /\ UNCHANGED <<FUC_time_series, min_time_breakpoint, span_co2,
                   fuc_min_num_points, ignoreFirst_arg, curve, curves, tested,
                   output, pc>>
    /\ UNCHANGED detector_vars

\* the loop has ended: yield i, j - 1
LastYield ==
    /\ pc = "while"
    /\ fuc_j >= shape0(FUC_time_series)
    /\ curve' = <<fuc_i, fuc_j - 1>>
    /\ curves' = Append(curves, curve')
    /\ pc' = "last body"
    /\ UNCHANGED <<FUC_time_series, min_time_breakpoint, span_co2,
                   fuc_min_num_points, ignoreFirst_arg, ignoreFirst, fuc_i,
                   fuc_j, tested, output>>
    /\ UNCHANGED detector_vars

\* the body of `for curve_start, curve_end in generator`
QcBody ==
    /\ pc \in {"body", "last body"}
    /\ \E FUC_curve \in {curve_measurements(FUC_time_series, curve[1],
                                            failsafe(curve[1], curve[2]))} :
          /\ tested' = Append(tested, shape0(FUC_curve))
          /\ output' = Append(output,
                              <<FUC_time_series[curve[1]][0],
                                FUC_tests(FUC_curve, span_co2, fuc_min_num_points,
                                          max_diff_from_span, max_st_dev_100)>>)
    /\ pc' = (IF pc = "body" THEN "resume" ELSE "exhausted")
    /\ UNCHANGED <<FUC_time_series, min_time_breakpoint, span_co2,
                   fuc_min_num_points, ignoreFirst_arg, ignoreFirst, fuc_i,
                   fuc_j, curve, curves>>
    /\ UNCHANGED detector_vars

\* the generator goes on after its yield: i = j; j += 1
YieldResume ==
    /\ pc = "resume"
    /\ fuc_i' = fuc_j
    /\ fuc_j' = fuc_j + 1
    /\ pc' = "while"
    /\ UNCHANGED <<FUC_time_series, min_time_breakpoint, span_co2,
                   fuc_min_num_points, ignoreFirst_arg, ignoreFirst, curve,
                   curves, tested, output>>
    /\ UNCHANGED detector_vars

\* the generator is exhausted: return np.array(output)
QcReturn ==
    /\ pc = "exhausted"
    /\ pc' = "returned"
    /\ UNCHANGED fuc_vars
    /\ UNCHANGED detector_vars

NextFUC ==
    \/ QcCall \/ WhileNoBreak \/ WhileYield \/ WhileIgnoreFirst \/ LastYield
    \/ QcBody \/ YieldResume \/ QcReturn

SpecFUC == InitFUC /\ [][NextFUC]_vars

\* ======================================================================
\* Properties
\* ======================================================================
Entered == pc \in {"loop", "return", "done"}
Rows == shape0(orig)
Cols == shape1(orig)
AllFalse(mask) == TrueCells(mask) = {}
Missing(m) == {rc \in CellsOf(m) : isnan(m[rc[1]][rc[2]])}

\* ---------------------------------------------------------------- C1
\* C1: OutlierDetector.outliers never mutates the caller's input matrix:
\* whatever the input (1-D or 2-D) and num_of_iterations, the caller's array
\* holds the values it held when the call was made.
C1_InputNeverMutated == caller = orig

\* ---------------------------------------------------------------- C2
\* what the statement of is_outlier speaks of, computed from the window
CutoffDefined(c, min_points) ==
    count_valid(c) >= min_points /\ count_valid(c) >= 1

\* |value - median| < |q75 - q25| / 1.35 * limit, cleared of fractions:
\* median = nanmedian/2, quartiles = nanpercentile/4, 1.35 = 135/100
StrictlyInside(c, point, limit) ==
    2 * IqrDivisor100 * Abs(2 * point - nanmedian(c))
        < 100 * limit * Abs(nanpercentile(c, 75) - nanpercentile(c, 25))

OnBoundary(c, point, limit) ==
    2 * IqrDivisor100 * Abs(2 * point - nanmedian(c))
        = 100 * limit * Abs(nanpercentile(c, 75) - nanpercentile(c, 25))

NotOutlierCase ==
    /\ CutoffDefined(col, min_num_points)
    /\ ~isnan(data_point)
    /\ StrictlyInside(col, data_point, stdev_limit)

\* C2 as stated: is_outlier returns true in every case other than "cutoff
\* defined, value defined and strictly inside", so also for an undefined
\* cutoff and for a missing value.
C2_TrueWheneverUndefined ==
    pc = "tested" => (verdict = ~NotOutlierCase)

\* C2 amended: is_outlier returns true exactly when the cutoff is defined,
\* the value is not missing and the value is not strictly inside
\* median +/- cutoff; it returns false when the cutoff is undefined (fewer
\* non-missing values than the minimum) and false when the value is missing.
C2_FalseWheneverUndefined ==
    pc = "tested" =>
        /\ ~CutoffDefined(col, min_num_points) => verdict = FALSE
        /\ isnan(data_point) => verdict = FALSE
        /\ verdict = (/\ CutoffDefined(col, min_num_points)
                      /\ ~isnan(data_point)
                      /\ ~StrictlyInside(col, data_point, stdev_limit))

\* an undefined cutoff on a window that has values, tested on a value
C2_Witness ==
    /\ pc = "tested"
    /\ ~CutoffDefined(col, min_num_points)
    /\ count_valid(col) >= 1
    /\ ~isnan(data_point)
    /\ verdict = FALSE

\* ---------------------------------------------------------------- C7
\* C7: with a defined cutoff and a non-missing value, is_outlier returns
\* false iff median - cutoff < value < median + cutoff; a value on either
\* bound is an outlier, so with a zero interquartile spread every
\* non-missing value, the median included, is an outlier.
C7_StrictBoundary ==
    (pc = "tested" /\ CutoffDefined(col, min_num_points) /\ ~isnan(data_point)) =>
        /\ (verdict = FALSE) <=> StrictlyInside(col, data_point, stdev_limit)
        /\ OnBoundary(col, data_point, stdev_limit) => verdict = TRUE
        /\ nanpercentile(col, 75) = nanpercentile(col, 25) => verdict = TRUE

\* a value equal to the median of a window without spread is flagged
C7_Witness ==
    /\ pc = "tested"
    /\ CutoffDefined(col, min_num_points)
    /\ count_valid(col) >= 2
    /\ nanpercentile(col, 75) = nanpercentile(col, 25)
    /\ ~isnan(data_point)
    /\ 2 * data_point = nanmedian(col)
    /\ verdict = TRUE

\* ---------------------------------------------------------------- C3
\* a sweep after which the loop goes on
NonFinalSweep == pc = "loop" /\ pc' = "loop" /\ sweeps' = sweeps + 1

\* C3: without an iteration cap the loop halts: every sweep that does not
\* end the loop flags at least one cell, each cell it flags was non-missing
\* in the working matrix at the start of the sweep and is missing afterwards,
\* a missing cell stays missing, so the number of non-missing cells strictly
\* decreases; hence the sweeps that went on never outnumber the cells that
\* have gone missing since the call, and one more sweep ends the loop.
C3_Halts ==
    /\ [][/\ NonFinalSweep =>
                /\ TrueCells(outlier_truth_matrix') # {}
                /\ TrueCells(outlier_truth_matrix') \cap Missing(data) = {}
                /\ TrueCells(outlier_truth_matrix') \subseteq Missing(data')
                /\ Cardinality(Missing(data')) > Cardinality(Missing(data))
          /\ (Entered /\ Entered') => Missing(data) \subseteq Missing(data')]_vars
    /\ [](Entered =>
            sweeps <= Cardinality(Missing(data)) - Cardinality(Missing(orig))
                      + (IF pc = "loop" THEN 0 ELSE 1))

\* a run that halted after two sweeps that flagged something
C3_Witness ==
    /\ pc = "done"
    /\ num_of_iterations = None
    /\ sweeps >= 3
    /\ AllFalse(outlier_truth_matrix)

\* ---------------------------------------------------------------- C4
\* C4 as stated: without an iteration cap the number of sweeps, the final
\* one that finds nothing included, is at most rows * columns.
C4_AtMostCells ==
    num_of_iterations = None => sweeps <= Rows * Cols

\* C4 amended: without an iteration cap the number of sweeps, the final one
\* that finds nothing included, is at most rows * columns + 1.
C4_AtMostCellsPlusOne ==
    num_of_iterations = None => sweeps <= Rows * Cols + 1

\* a run that needed one sweep more than the matrix has cells
C4_Witness ==
    /\ pc = "done"
    /\ num_of_iterations = None
    /\ sweeps = Rows * Cols + 1

\* ---------------------------------------------------------------- C5
\* cell rc is true in the mask of some sweep made so far
InSomeSweep(rc) == \E k \in 1..Len(history) : history[k][rc[1]][rc[2]]

\* C5: the cumulative mask only gains entries: a cell that is true after a
\* sweep is true after every later sweep and in the returned mask, and the
\* returned mask is the per-cell OR of all per-sweep masks of the run.
C5_MaskMonotonic ==
    /\ [][(Entered /\ Entered') =>
            \A rc \in CellsOf(outliers) :
                outliers[rc[1]][rc[2]] # 0 =>
                    /\ outliers'[rc[1]][rc[2]] # 0
                    /\ pc' = "done" => result'[rc[1]][rc[2]]]_vars
    /\ [](Entered =>
            \A rc \in CellsOf(outliers) :
                (outliers[rc[1]][rc[2]] # 0) = InSomeSweep(rc))
    /\ [](pc = "done" =>
            /\ DOMAIN result = DOMAIN orig
            /\ \A rc \in CellsOf(orig) : result[rc[1]][rc[2]] = InSomeSweep(rc))

\* a returned mask that holds a cell flagged in the first of three sweeps
C5_Witness ==
    /\ pc = "done"
    /\ Len(history) >= 3
    /\ \E rc \in CellsOf(result) :
          /\ history[1][rc[1]][rc[2]]
          /\ ~history[2][rc[1]][rc[2]]
          /\ result[rc[1]][rc[2]]

\* --------------------------------------------------------------- C10
\* C10: with num_of_iterations = k the run makes at most k sweeps and returns
\* after the k-th even if it flagged something; it makes fewer than k only
\* when its last sweep flagged nothing; with k = 0 it makes none and returns
\* an all-false mask.
C10_IterationCap ==
    (num_of_iterations # None /\ Entered) =>
        /\ sweeps <= num_of_iterations
        /\ (pc \in {"return", "done"} /\ sweeps < num_of_iterations) =>
              (sweeps >= 1 /\ AllFalse(history[sweeps]))
        /\ (pc = "loop" /\ sweeps >= 1) => ~AllFalse(history[sweeps])
        /\ (pc = "done" /\ num_of_iterations = 0) =>
              (sweeps = 0 /\ AllFalse(result))

\* a capped run that returned although its last sweep flagged a cell
C10_Witness ==
    /\ pc = "done"
    /\ num_of_iterations >= 2
    /\ sweeps = num_of_iterations
    /\ ~AllFalse(history[sweeps])

\* ---------------------------------------------------------------- C6
\* C6: a second run of InterquartileVarianceAlgorithm.outliers on the same,
\* unchanged matrix with the cache the first run returned yields an
\* all-false mask and leaves the cache as it was.
C6_SecondRunFindsNothing ==
    [][(pc = "algorithm" /\ sweeps >= 1 /\ sweeps' = sweeps + 1) =>
          /\ data' = data
          /\ AllFalse(outlier_truth_matrix')
          /\ num_missing_in_frame' = num_missing_in_frame]_vars

\* a second run after a first run that flagged a cell
C6_Witness ==
    /\ pc = "algorithm"
    /\ sweeps = 2
    /\ ~AllFalse(history[1])
    /\ AllFalse(history[2])

\* ---------------------------------------------------------------- C8
\* first row of the block the statement of the generator gives row i
BlockStart(i) ==
    IF i < frame THEN 0
    ELSE IF i >= Rows - frame THEN Rows - 2 * frame - 1
    ELSE i - frame

Block(i) == [k \in 0..(2 * frame) |-> orig[BlockStart(i) + k]]

\* C8: for a series of at least 2h+1 rows the generator yields one window per
\* row index, in order, each of exactly 2h+1 rows: rows [i-h, i+h] for
\* h <= i < rows-h, the first 2h+1 rows for i < h, the last 2h+1 rows for
\* i >= rows-h; the input is not modified.
C8_Windows ==
    (pc \in {"generating", "generated"} /\ Rows >= 2 * frame + 1) =>
        /\ Len(yielded) = idx
        /\ idx <= Rows
        /\ pc = "generated" => idx = Rows
        /\ \A j \in 1..Len(yielded) :
              /\ shape0(yielded[j]) = 2 * frame + 1
              /\ yielded[j] = Block(j - 1)
        /\ caller = orig

\* a finished generator that yielded a leading, a centred and a trailing
\* block that differ
C8_Witness ==
    /\ pc = "generated"
    /\ frame >= 1
    /\ Rows > 2 * frame + 1
    /\ yielded[1] # yielded[frame + 1 + 1]
    /\ yielded[frame + 1] = yielded[1]
    /\ yielded[Rows] # yielded[Rows - frame - 1]

\* ---------------------------------------------------------------- C9
\* C9: a series of fewer than 2h+1 rows is refused with a precondition
\* error: the generator never yields a window of fewer than 2h+1 rows.
C9_NoShortWindow ==
    pc \in {"generating", "generated"} =>
        \A j \in 1..Len(yielded) : shape0(yielded[j]) = 2 * frame + 1

\* --------------------------------------------------------------- C11
\* the rows of the window of row r: the block of 2h+1 rows, or the whole
\* series when it is shorter than that
WindowRows(r) ==
    IF Rows >= 2 * frame + 1
    THEN BlockStart(r)..(BlockStart(r) + 2 * frame)
    ELSE 0..(Rows - 1)

\* the rows of the window of row r that hold a value in column c of m
WindowValues(m, r, c) == {k \in WindowRows(r) : ~isnan(m[k][c])}

\* a step that is one sweep of the loop
Sweep == pc = "loop" /\ sweeps' = sweeps + 1

Recomputed(rc) ==
    need_recalc(new_num_missing_data(generator(data, frame, rc[1])),
                num_missing_in_frame[rc[1]])[rc[2]]

\* the cell's window holds a cell flagged in the latest sweep
WindowFlagged(rc) ==
    \E k \in WindowRows(rc[1]) : history[sweeps][k][rc[2]]

\* C16: in sweep k >= 2 a cell's test is recomputed iff its window, for its
\* column, holds a cell flagged in sweep k-1; in sweep 1 it is recomputed iff
\* its window holds a non-missing value; every other cell is skipped and
\* reported false.
C16_RecomputedIff ==
    [][Sweep =>
          \A rc \in CellsOf(data) :
              /\ Recomputed(rc) <=>
                    (IF sweeps = 0
                     THEN WindowValues(data, rc[1], rc[2]) # {}
                     ELSE WindowFlagged(rc))
              /\ ~Recomputed(rc) => ~outlier_truth_matrix'[rc[1]][rc[2]]]_vars

\* a second sweep was made over a matrix in which one cell with values in
\* its window had a flagged cell there and another had none
C16_Witness ==
    /\ pc \in {"loop", "return"}
    /\ sweeps = 2
    /\ \E rc \in CellsOf(data) : \E k \in WindowRows(rc[1]) : history[1][k][rc[2]]
    /\ \E rc \in CellsOf(data) :
          /\ WindowValues(data, rc[1], rc[2]) # {}
          /\ \A k \in WindowRows(rc[1]) : ~history[1][k][rc[2]]
          /\ ~history[2][rc[1]][rc[2]]

\* --------------------------------------------------------------- C17
\* the mask of a sweep that tests every cell of m
EveryCellTested(m) ==
    [r \in DOMAIN m |->
        [c \in DOMAIN m[r] |->
            is_outlier(column(generator(m, frame, r), c), m[r][c], stdev_limit,
                       Min(2 * frame + 1, min_num_points))]]

\* the loop of the detector with every cell tested in every sweep: m is the
\* working matrix, acc the cells flagged so far, n the sweeps made
RECURSIVE Unmemoized(_, _, _)
UnmemoizedAfter(mask, m, acc, n) ==
    IF AllFalse(mask)
    THEN [mask |-> acc, sweeps |-> n + 1]
    ELSE Unmemoized(mask_assign(m, mask),
                    [r \in DOMAIN acc |->
                        [c \in DOMAIN acc[r] |-> acc[r][c] \/ mask[r][c]]],
                    n + 1)

Unmemoized(m, acc, n) ==
    IF num_of_iterations # None /\ n >= num_of_iterations
    THEN [mask |-> acc, sweeps |-> n]
    ELSE UnmemoizedAfter(EveryCellTested(m), m, acc, n)

UnmemoizedRun ==
    Unmemoized(orig, [r \in DOMAIN orig |-> [c \in DOMAIN orig[r] |-> FALSE]], 0)

SameAsUnmemoized(run) == result = run.mask /\ sweeps = run.sweeps

\* C17: for every input matrix with rows >= 2h+1 and every iteration cap the
\* mask returned with the count cache equals the mask returned by the same
\* loop with every cell tested in every sweep, and both make the same number
\* of sweeps.
C17_MemoizationKeepsResult ==
    (pc = "done" /\ Rows >= 2 * frame + 1) => SameAsUnmemoized(UnmemoizedRun)

\* a run of three sweeps in whose second sweep a cell was flagged
C17_Witness ==
    /\ pc = "done"
    /\ Rows >= 2 * frame + 1
    /\ sweeps >= 3
    /\ ~AllFalse(history[2])
    /\ SameAsUnmemoized(UnmemoizedRun)

\* --------------------------------------------------------------- C18
\* the sweeps in which the cell was flagged
SweepsFlagging(rc) == {k \in 1..Len(history) : history[k][rc[1]][rc[2]]}

\* C18: a cell missing in the input is never true in the returned mask, no
\* cell is flagged in more than one sweep, and when the run returns the cells
\* missing in the working matrix are the cells missing in the input plus
\* exactly the cells true in the returned mask.
C18_OnlyRealData ==
    /\ Entered =>
          \A rc \in CellsOf(orig) :
              /\ Cardinality(SweepsFlagging(rc)) <= 1
              /\ outliers[rc[1]][rc[2]] <= 1
    /\ pc = "done" =>
          /\ TrueCells(result) \cap Missing(orig) = {}
          /\ Missing(data) = Missing(orig) \cup TrueCells(result)

\* a capped run over an input with a missing cell that returned right after
\* a sweep that flagged a cell
C18_Witness ==
    /\ pc = "done"
    /\ Missing(orig) # {}
    /\ num_of_iterations = sweeps
    /\ sweeps >= 2
    /\ ~AllFalse(history[sweeps])
    /\ Missing(data) = Missing(orig) \cup TrueCells(result)

\* --------------------------------------------------------------- C12
\* the generator has yielded its last pair
GeneratorFinished == pc \in {"last body", "exhausted", "returned"}
Timestamps == series_column(FUC_time_series, 0)
Points == shape0(FUC_time_series)

\* C12: with ignoreFirst=True the generator never yields the first curve of
\* a non-empty series: no yielded pair starts at index 0, also when the
\* series holds no gap larger than min_time_breakpoint.
C12_FirstCurveNeverYielded ==
    ignoreFirst_arg => \A k \in 1..Len(curves) : curves[k][1] # 0

C14_AllPointsTested ==
    \A k \in 1..Len(tested) :
        /\ tested[k] = curves[k][2] - curves[k][1] + 1
        /\ curves[k][2] - curves[k][1] + 1 >= fuc_min_num_points
              => ~too_few_points(tested[k], fuc_min_num_points)

=============================================================================
